---- MODULE Spec2Model ----
(***************************************************************************)
(* chessbench UI: the live-match session of ui/src/App.tsx, the event      *)
(* source of ui/src/sse.ts (createMatchStream) and the simulator of        *)
(* ui/src/mock.ts (createMockStream).                                      *)
(*                                                                         *)
(* Text (FEN, PGN, UCI, SAN) is a sequence of one-character strings.       *)
(* A nullable React state cell or ref is a sequence of length 0 (null) or  *)
(* 1 (the value); a nullable board square is the string "null" or a piece  *)
(* letter.                                                                 *)
(***************************************************************************)
EXTENDS Integers, Sequences, FiniteSets, TLC

\* ------------------------------------------------------------------ bounds
\* createMatch requests in flight at once
MaxRequests == 2
\* the time controls the user can enter: 0 and 100 ms .. MaxInitialUnits * 100 ms
MaxInitialUnits == 3

\* ------------------------------------------------------- program constants
ClockStepMs == 200

None == <<>>
Some(x) == <<x>>
IsNull(o) == o = <<>>
Val(o) == o[1]
Null == "null"

Max(a, b) == IF a >= b THEN a ELSE b
Min(a, b) == IF a <= b THEN a ELSE b

\* --------------------------------------------------------------------- text
Digits == <<"0", "1", "2", "3", "4", "5", "6", "7", "8", "9">>
LowerLetters == <<"a", "b", "c", "d", "e", "f", "g", "h", "i", "j", "k", "l", "m",
                  "n", "o", "p", "q", "r", "s", "t", "u", "v", "w", "x", "y", "z">>
UpperLetters == <<"A", "B", "C", "D", "E", "F", "G", "H", "I", "J", "K", "L", "M",
                  "N", "O", "P", "Q", "R", "S", "T", "U", "V", "W", "X", "Y", "Z">>

\* Array.prototype.indexOf: 0-based, -1 when absent
IndexOf(seq, x) ==
  IF \E i \in 1..Len(seq) : seq[i] = x
  THEN (CHOOSE i \in 1..Len(seq) : seq[i] = x /\ \A j \in 1..(i - 1) : seq[j] # x) - 1
  ELSE -1

IsDigit(c) == IndexOf(Digits, c) >= 0
\* Number(char) of a digit character
DigitVal(c) == IndexOf(Digits, c)
\* String(n) of a non-negative integer
RECURSIVE NumToText(_)
NumToText(n) ==
  IF n < 10 THEN <<Digits[n + 1]>>
  ELSE NumToText(n \div 10) \o <<Digits[(n % 10) + 1]>>

ToUpperCase(c) ==
  IF IndexOf(LowerLetters, c) >= 0 THEN UpperLetters[IndexOf(LowerLetters, c) + 1] ELSE c
ToLowerCase(c) ==
  IF IndexOf(UpperLetters, c) >= 0 THEN LowerLetters[IndexOf(UpperLetters, c) + 1] ELSE c

\* Array.prototype.join
RECURSIVE Join(_, _)
Join(parts, sep) ==
  IF Len(parts) = 0 THEN <<>>
  ELSE IF Len(parts) = 1 THEN parts[1]
  ELSE parts[1] \o sep \o Join(Tail(parts), sep)

\* the k-th smallest of a set of positions
Kth(positions, k) ==
  CHOOSE i \in positions : Cardinality({j \in positions : j < i}) = k - 1

\* String.prototype.split on a one-character separator: the fields between the
\* separators, empty ones included
Split(text, sep) ==
  LET at == {i \in 1..Len(text) : text[i] = sep}
      n == Cardinality(at)
      before(k) == IF k = 0 THEN 0 ELSE Kth(at, k)
      after(k) == IF k = n THEN Len(text) + 1 ELSE Kth(at, k + 1)
  IN [k \in 1..(n + 1) |-> SubSeq(text, before(k - 1) + 1, after(k - 1) - 1)]

startFen ==
  <<"r", "n", "b", "q", "k", "b", "n", "r", "/", "p", "p", "p", "p", "p", "p", "p", "p",
    "/", "8", "/", "8", "/", "8", "/", "8", "/", "P", "P", "P", "P", "P", "P", "P", "P",
    "/", "R", "N", "B", "Q", "K", "B", "N", "R", " ", "w", " ", "K", "Q", "k", "q", " ",
    "-", " ", "0", " ", "1">>

\* ---------------------------------------------------------------- mock.ts
mockEngines == <<"stockfish-16", "lc0-0.30", "ethereal-14">>

mockMoves ==
  << [uci |-> <<"e", "2", "e", "4">>, san |-> <<"e", "4">>],
     [uci |-> <<"c", "7", "c", "5">>, san |-> <<"c", "5">>],
     [uci |-> <<"g", "1", "f", "3">>, san |-> <<"N", "f", "3">>],
     [uci |-> <<"d", "7", "d", "6">>, san |-> <<"d", "6">>],
     [uci |-> <<"d", "2", "d", "4">>, san |-> <<"d", "4">>],
     [uci |-> <<"c", "5", "d", "4">>, san |-> <<"c", "x", "d", "4">>],
     [uci |-> <<"f", "3", "d", "4">>, san |-> <<"N", "x", "d", "4">>],
     [uci |-> <<"g", "8", "f", "6">>, san |-> <<"N", "f", "6">>],
     [uci |-> <<"b", "1", "c", "3">>, san |-> <<"N", "c", "3">>],
     [uci |-> <<"a", "7", "a", "6">>, san |-> <<"a", "6">>],
     [uci |-> <<"f", "1", "e", "2">>, san |-> <<"B", "e", "2">>],
     [uci |-> <<"e", "7", "e", "6">>, san |-> <<"e", "6">>],
     [uci |-> <<"e", "1", "g", "1">>, san |-> <<"O", "-", "O">>],
     [uci |-> <<"f", "8", "e", "7">>, san |-> <<"B", "e", "7">>],
     [uci |-> <<"f", "2", "f", "4">>, san |-> <<"f", "4">>],
     [uci |-> <<"e", "8", "g", "8">>, san |-> <<"O", "-", "O">>],
     [uci |-> <<"c", "1", "e", "3">>, san |-> <<"B", "e", "3">>],
     [uci |-> <<"d", "8", "c", "7">>, san |-> <<"Q", "c", "7">>],
     [uci |-> <<"a", "2", "a", "4">>, san |-> <<"a", "4">>],
     [uci |-> <<"b", "8", "c", "6">>, san |-> <<"N", "c", "6">>] >>

files == <<"a", "b", "c", "d", "e", "f", "g", "h">>

createStartBoard ==
  << <<"r", "n", "b", "q", "k", "b", "n", "r">>,
     <<"p", "p", "p", "p", "p", "p", "p", "p">>,
     <<Null, Null, Null, Null, Null, Null, Null, Null>>,
     <<Null, Null, Null, Null, Null, Null, Null, Null>>,
     <<Null, Null, Null, Null, Null, Null, Null, Null>>,
     <<Null, Null, Null, Null, Null, Null, Null, Null>>,
     <<"P", "P", "P", "P", "P", "P", "P", "P">>,
     <<"R", "N", "B", "Q", "K", "B", "N", "R">> >>

\* rows and columns are 0-based as in the source; the sequences are 1-based
squareToCoords(square) ==
  [row |-> 8 - DigitVal(square[2]), col |-> IndexOf(files, square[1])]

At(board, row, col) == board[row + 1][col + 1]
Put(board, row, col, v) == [board EXCEPT ![row + 1][col + 1] = v]

\* applyUciMove without its four castling branches
applyUciMove_KingOnly(board, uci) ==
  LET f == squareToCoords(SubSeq(uci, 1, 2))
      t == squareToCoords(SubSeq(uci, 3, 4))
      piece == At(board, f.row, f.col)
      movedPiece == IF Len(uci) > 4
                    THEN (IF piece = ToUpperCase(piece)
                          THEN ToUpperCase(uci[5]) ELSE ToLowerCase(uci[5]))
                    ELSE piece
  IN IF piece = Null THEN board
     ELSE Put(Put(board, f.row, f.col, Null), t.row, t.col, movedPiece)

applyUciMove(board, uci) ==
  LET from == SubSeq(uci, 1, 2)
      to == SubSeq(uci, 3, 4)
      promotion == IF Len(uci) > 4 THEN uci[5] ELSE Null
      f == squareToCoords(from)
      t == squareToCoords(to)
      piece == At(board, f.row, f.col)
      b1 == Put(board, f.row, f.col, Null)
      b2 == IF piece = "K" /\ from = <<"e", "1">> /\ to = <<"g", "1">>
            THEN Put(Put(b1, 7, 5, At(b1, 7, 7)), 7, 7, Null) ELSE b1
      b3 == IF piece = "K" /\ from = <<"e", "1">> /\ to = <<"c", "1">>
            THEN Put(Put(b2, 7, 3, At(b2, 7, 0)), 7, 0, Null) ELSE b2
      b4 == IF piece = "k" /\ from = <<"e", "8">> /\ to = <<"g", "8">>
            THEN Put(Put(b3, 0, 5, At(b3, 0, 7)), 0, 7, Null) ELSE b3
      b5 == IF piece = "k" /\ from = <<"e", "8">> /\ to = <<"c", "8">>
            THEN Put(Put(b4, 0, 3, At(b4, 0, 0)), 0, 0, Null) ELSE b4
      movedPiece == IF promotion # Null
                    THEN (IF piece = ToUpperCase(piece)
                          THEN ToUpperCase(promotion) ELSE ToLowerCase(promotion))
                    ELSE piece
  IN IF piece = Null THEN board ELSE Put(b5, t.row, t.col, movedPiece)

\* one rank of boardToPlacement: the forEach over the squares, then the trailing gap
RECURSIVE RankLine(_, _, _, _)
RankLine(rank, i, empties, line) ==
  IF i > Len(rank)
  THEN (IF empties > 0 THEN line \o NumToText(empties) ELSE line)
  ELSE IF rank[i] = Null
  THEN RankLine(rank, i + 1, empties + 1, line)
  ELSE RankLine(rank, i + 1, 0,
                (IF empties > 0 THEN line \o NumToText(empties) ELSE line) \o <<rank[i]>>)

\* (b is the board, named once so that its ranks are read from one value)
boardToPlacement(board) ==
  CHOOSE placement \in
    {Join([r \in 1..Len(b) |-> RankLine(b[r], 1, 0, <<>>)], <<"/">>) : b \in {board}} : TRUE

\* the fixed tail of the fen the simulator emits after "<placement> <side>"
fenTail == <<" ", "-", " ", "-", " ", "0", " ", "1">>

\* StreamHandlers events: the handler to call and its payload
EvOpen == [kind |-> "open"]
EvMatchStarted(match_id, start_fen) ==
  [kind |-> "match_started", match_id |-> match_id, start_fen |-> start_fen]
EvClock(white_ms, black_ms) ==
  [kind |-> "clock", white_ms |-> white_ms, black_ms |-> black_ms]
EvMove(ply, uci, san, fen, pgn) ==
  [kind |-> "move", ply |-> ply, uci |-> uci, san |-> san, fen |-> fen, pgn |-> pgn]
EvResult(result, reason) == [kind |-> "result", result |-> result, reason |-> reason]

\* mutant: MatchStarted is fired before onOpen
createMockStream_StartedFirst(initialMs) ==
  [sim |-> [moveIndex |-> 0, whiteMs |-> initialMs, blackMs |-> initialMs,
            closed |-> FALSE, sideToMove |-> "w", board |-> createStartBoard,
            pgnMoves |-> <<>>, clockTimer |-> TRUE, moveTimer |-> TRUE],
   events |-> <<EvMatchStarted("mock", startFen), EvOpen>>]

\* createMockStream up to its return: the instance and the events fired on open
createMockStream(initialMs) ==
  [sim |-> [moveIndex |-> 0, whiteMs |-> initialMs, blackMs |-> initialMs,
            closed |-> FALSE, sideToMove |-> "w", board |-> createStartBoard,
            pgnMoves |-> <<>>, clockTimer |-> TRUE, moveTimer |-> TRUE],
   events |-> <<EvOpen, EvMatchStarted("mock", startFen)>>]

\* mutant: the clocks are not clamped at 0
clockTimerFires_NoClamp(sim) ==
  IF sim.closed THEN [sim |-> sim, events |-> <<>>]
  ELSE LET w == sim.whiteMs - ClockStepMs
           b == sim.blackMs - ClockStepMs
       IN [sim |-> [sim EXCEPT !.whiteMs = w, !.blackMs = b],
           events |-> <<EvClock(w, b)>>]

\* one firing of the 200 ms interval
clockTimerFires(sim) ==
  IF sim.closed THEN [sim |-> sim, events |-> <<>>]
  ELSE LET w == Max(0, sim.whiteMs - ClockStepMs)
           b == Max(0, sim.blackMs - ClockStepMs)
       IN [sim |-> [sim EXCEPT !.whiteMs = w, !.blackMs = b],
           events |-> <<EvClock(w, b)>>]

\* mutant: the ply of a Move is the index of the script entry, counted from 0
scriptedMove_PlyFromZero(sim) ==
  LET move == mockMoves[sim.moveIndex + 1]
      board == applyUciMove(sim.board, move.uci)
      pgnMoves ==
        IF sim.moveIndex % 2 = 0
        THEN Append(sim.pgnMoves,
                    NumToText((sim.moveIndex \div 2) + 1) \o <<".", " ">> \o move.san)
        ELSE [sim.pgnMoves EXCEPT ![Len(sim.pgnMoves)] = @ \o <<" ">> \o move.san]
      sideToMove == IF sim.sideToMove = "w" THEN "b" ELSE "w"
      fen == boardToPlacement(board) \o <<" ", sideToMove>> \o fenTail
  IN [sim |-> [sim EXCEPT !.board = board, !.pgnMoves = pgnMoves,
                          !.sideToMove = sideToMove, !.moveIndex = @ + 1],
      events |-> <<EvMove(sim.moveIndex, move.uci, move.san, fen,
                          Join(pgnMoves, <<" ">>))>>]

\* the move timer's firing while the script has an entry left (mock.ts 216-233)
scriptedMove(sim) ==
  LET move == mockMoves[sim.moveIndex + 1]
      board == applyUciMove(sim.board, move.uci)
      pgnMoves ==
        IF sim.moveIndex % 2 = 0
        THEN Append(sim.pgnMoves,
                    NumToText((sim.moveIndex \div 2) + 1) \o <<".", " ">> \o move.san)
        ELSE [sim.pgnMoves EXCEPT ![Len(sim.pgnMoves)] = @ \o <<" ">> \o move.san]
      sideToMove == IF sim.sideToMove = "w" THEN "b" ELSE "w"
      fen == boardToPlacement(board) \o <<" ", sideToMove>> \o fenTail
  IN [sim |-> [sim EXCEPT !.board = board, !.pgnMoves = pgnMoves,
                          !.sideToMove = sideToMove, !.moveIndex = @ + 1],
      events |-> <<EvMove(sim.moveIndex + 1, move.uci, move.san, fen,
                          Join(pgnMoves, <<" ">>))>>]

\* mutant: the script's end emits the Result but neither sets closed nor clears the timers
moveTimerFires_NoStop(sim) ==
  IF sim.closed THEN [sim |-> sim, events |-> <<>>]
  ELSE IF sim.moveIndex + 1 > Len(mockMoves)
  THEN [sim |-> sim, events |-> <<EvResult("1-0", "checkmate")>>]
  ELSE scriptedMove(sim)

\* one firing of the 1200 ms interval
moveTimerFires(sim) ==
  IF sim.closed THEN [sim |-> sim, events |-> <<>>]
  ELSE IF sim.moveIndex + 1 > Len(mockMoves)
  THEN [sim |-> [sim EXCEPT !.closed = TRUE, !.clockTimer = FALSE, !.moveTimer = FALSE],
        events |-> <<EvResult("1-0", "checkmate")>>]
  ELSE scriptedMove(sim)

\* mutant: close() sets the flag and leaves both intervals running
mockClose_OnlyFlag(sim) == [sim EXCEPT !.closed = TRUE]

\* the handle's close()
mockClose(sim) == [sim EXCEPT !.closed = TRUE, !.clockTimer = FALSE, !.moveTimer = FALSE]

\* ------------------------------------------------------------------ App.tsx
\* String.prototype.replace(/\{[^}]*\}/g, '') and its like for ( ): every span from
\* an opening character to the next closing one is removed, left to right
StripSpans(text, open, close) ==
  LET closes == {i \in 1..Len(text) : text[i] = close}
      \* i lies between an opening character and the first closing one after it
      inSpan(i) ==
        \E o \in 1..i :
          /\ text[o] = open
          /\ \E c \in closes : c > o /\ c >= i
          /\ \A c \in closes : ~(o < c /\ c < i)
      kept == {i \in 1..Len(text) : ~inSpan(i)}
  IN [k \in 1..Cardinality(kept) |-> text[Kth(kept, k)]]

\* the characters \s matches, of those a text here can hold
IsSpace(c) == c \in {" ", "\t", "\n", "\r"}

\* text.split(/\s+/).filter(Boolean): the maximal runs without white space
Tokens(text) ==
  LET starts == {i \in 1..Len(text) :
                   ~IsSpace(text[i]) /\ (i = 1 \/ IsSpace(text[i - 1]))}
      ends == {i \in 1..Len(text) :
                 ~IsSpace(text[i]) /\ (i = Len(text) \/ IsSpace(text[i + 1]))}
  IN [k \in 1..Cardinality(starts) |-> SubSeq(text, Kth(starts, k), Kth(ends, k))]

\* /^\d+\.+$/.test(token): digits, one at least, then dots, one at least
IsMoveNumber(token) ==
  \E n \in 1..(Len(token) - 1) :
    /\ \A i \in 1..n : IsDigit(token[i])
    /\ \A i \in (n + 1)..Len(token) : token[i] = "."

IsResultToken(token) ==
  token \in {<<"1", "-", "0">>, <<"0", "-", "1">>,
             <<"1", "/", "2", "-", "1", "/", "2">>, <<"*">>}

\* the rows of parsePgnMoves: moves[i] ?? '' is the empty text past the end
PairRows(moves) ==
  [n \in 1..((Len(moves) + 1) \div 2) |->
     [moveNumber |-> n,
      white |-> moves[2 * n - 1],
      black |-> IF 2 * n <= Len(moves) THEN moves[2 * n] ELSE <<>>]]

\* mutant: a digit stands for one empty square
parseRank_OneSquarePerDigit(rank) ==
  [i \in 1..Len(rank) |-> IF rank[i] \in {"1", "2", "3", "4", "5", "6", "7", "8"}
                           THEN Null ELSE rank[i]]

\* the body of parseFen's ranks.map: the row of one rank
RECURSIVE parseRank(_)
parseRank(rank) ==
  IF rank = <<>> THEN <<>>
  ELSE IF Head(rank) \in {"1", "2", "3", "4", "5", "6", "7", "8"}
  THEN [i \in 1..DigitVal(Head(rank)) |-> Null] \o parseRank(Tail(rank))
  ELSE <<Head(rank)>> \o parseRank(Tail(rank))

\* parseFen (App.tsx 30-47): it has no throw statement and returns a row per rank
parseFen(fen) ==
  LET placement == Split(fen, " ")[1]
      ranks == Split(placement, "/")
  IN [i \in 1..Len(ranks) |-> parseRank(ranks[i])]

\* how a call of parseFen ends
parseFenOutcome(fen) == [threw |-> FALSE, grid |-> Some(parseFen(fen))]

\* mutant: the move numbers are not skipped
parsePgnMoves_KeepsNumbers(pgn) ==
  PairRows(SelectSeq(Tokens(StripSpans(StripSpans(pgn, "{", "}"), "(", ")")),
                     LAMBDA token : ~IsResultToken(token)))

parsePgnMoves(pgn) ==
  PairRows(SelectSeq(Tokens(StripSpans(StripSpans(pgn, "{", "}"), "(", ")")),
                     LAMBDA token : ~IsMoveNumber(token) /\ ~IsResultToken(token)))

VARIABLES
  state,      \* the useState cells of App
  refs,       \* streamRef, reconnectTimerRef, mockStreamRef and the live browser
              \* objects they can point to: EventSources, timeouts, simulators
  requests,   \* createMatch requests in flight
  fetching,   \* a fetchEngines request is in flight and its effect is still active
  effectDue,  \* App has rendered with a new useMocks and the engine-loading effect
              \* has not run yet
  lastOp,     \* the callback that ran last, the status it found and whether a
              \* reconnect timeout was pending when it ran
  sim,        \* stand-alone simulator: the instance under test
  emitted,    \* stand-alone simulator: what its handlers have been called with
  fold,       \* the two handler sets side by side: the events folded and the two worlds
  wire,       \* stand-alone Stream Client: its EventSource and what its handlers saw
  given,      \* parseFen on its own: the fen it is given
  moved       \* applyUciMove on its own: the grid before and after the last move

vars == <<state, refs, requests, fetching, effectDue, lastOp, sim, emitted, fold, wire, given, moved>>
appVars == <<state, refs, requests, fetching, effectDue, lastOp>>
simVars == <<sim, emitted>>

Statuses == {"idle", "loading", "connecting", "running", "finished", "error", "reconnecting"}

\* match ids: the server's, and createMockMatch's mock-<Date.now()>
MatchId(n) == <<"match", n>>
MockMatchId == <<"mock", 0>>

\* the id POST /api/match answers with: one no state cell, stream or timer holds
\* (the first such, ids being compared for equality only)
FreshMatchId(w) ==
  LET used == {w.s.matchId} \cup {Some(x.id) : x \in w.r.streams}
                            \cup {Some(t.id) : t \in w.r.timers}
  IN MatchId(CHOOSE n \in 1..(Cardinality(used) + 1) :
               /\ Some(MatchId(n)) \notin used
               /\ \A k \in 1..(n - 1) : Some(MatchId(k)) \in used)

sampleFen ==
  <<"r", "n", "b", "q", "k", "b", "n", "r", "/", "p", "p", "p", "p", "p", "p", "p", "p",
    "/", "8", "/", "8", "/", "4", "P", "3", "/", "5", "N", "2", "/", "P", "P", "P", "P",
    "1", "P", "P", "P", "/", "R", "N", "B", "Q", "K", "B", "1", "R", " ", "b", " ", "K",
    "Q", "k", "q", " ", "-", " ", "1", " ", "2">>

\* what the server can send on a match stream
StartFenChoices == {<<>>, sampleFen}
ClockChoices == {EvClock(1000, 800)}
MoveChoices == {moveTimerFires(createMockStream(0).sim).events[1]}
ResultChoices == {EvResult("0-1", "resignation")}
\* what GET /api/engines can answer
EngineLists == {<<>>, <<"e1">>, <<"e1", "e2">>, <<"e1", "">>}
\* the time controls the user can enter (initialMs of the minutes/seconds inputs)
InitialMsChoices == {0} \cup {100 * k : k \in 1..MaxInitialUnits}

\* the smallest handle no live object of the set and no ref uses
FreshHandle(objs, ref) ==
  CHOOSE h \in 1..(Cardinality(objs) + 2) :
    /\ h # ref
    /\ \A o \in objs : o.h # h
    /\ \A g \in 1..(h - 1) : g = ref \/ \E o \in objs : o.h = g

\* a world: the state cells and the refs a callback reads and writes
World == [s |-> state, r |-> refs]

\* closeStream forgetting window.clearTimeout: the ref is cleared, the timeout stays
closeStream_KeepsTimeout(w) ==
  LET r == w.r
  IN [w EXCEPT !.r = [r EXCEPT !.reconnectTimerRef = 0,
                               !.streams = {x \in @ : x.h # r.streamRef},
                               !.streamRef = 0,
                               !.mocks = {m \in @ : m.h # r.mockStreamRef},
                               !.mockStreamRef = 0]]

\* closeStream (App.tsx 268-277): clear the pending timeout, close the EventSource and
\* the simulator the refs hold, and null the three refs
closeStream(w) ==
  LET r == w.r
      timers1 == IF r.reconnectTimerRef # 0
                 THEN {t \in r.timers : t.h # r.reconnectTimerRef} ELSE r.timers
  IN [w EXCEPT !.r = [r EXCEPT !.timers = timers1,
                               !.reconnectTimerRef = 0,
                               !.streams = {x \in @ : x.h # r.streamRef},
                               !.streamRef = 0,
                               !.mocks = {m \in @ : m.h # r.mockStreamRef},
                               !.mockStreamRef = 0]]

\* the handlers openStream registers (App.tsx 283-309); onError is StreamOnError below
\* onOpen setting running whatever the status
streamOnOpen_Always(w) == [w EXCEPT !.s.status = "running"]
\* onOpen restarting the display when it resumes
streamOnOpen_Restart(w) ==
  [w EXCEPT !.s.status = IF @ = "reconnecting" THEN "running" ELSE @,
            !.s.fen = IF w.s.status = "reconnecting" THEN startFen ELSE @,
            !.s.pgn = IF w.s.status = "reconnecting" THEN <<>> ELSE @]
streamOnOpen(w) ==
  [w EXCEPT !.s.status = IF @ = "reconnecting" THEN "running" ELSE @]
\* onMatchStarted keeping the move list it had
streamOnMatchStarted_KeepsMoves(w, data) ==
  [w EXCEPT !.s.status = "running",
            !.s.fen = IF data.start_fen # <<>> THEN data.start_fen ELSE startFen,
            !.s.result = None]

streamOnMatchStarted(w, data) ==
  [w EXCEPT !.s.status = "running",
            !.s.fen = IF data.start_fen # <<>> THEN data.start_fen ELSE startFen,
            !.s.pgn = <<>>,
            !.s.result = None]
streamOnClock(w, data) ==
  [w EXCEPT !.s.clocks = Some([white_ms |-> data.white_ms, black_ms |-> data.black_ms])]
\* onMove adding the received move list to the one shown
streamOnMove_Appends(w, data) ==
  [w EXCEPT !.s.fen = data.fen, !.s.pgn = @ \o data.pgn,
            !.s.lastMoveUci = Some(data.uci)]

streamOnMove(w, data) ==
  [w EXCEPT !.s.fen = data.fen, !.s.pgn = data.pgn, !.s.lastMoveUci = Some(data.uci)]
streamOnResult(w, data) ==
  closeStream([w EXCEPT !.s.result = Some([result |-> data.result, reason |-> data.reason]),
                        !.s.status = "finished"])

\* createMatchStream: a new EventSource, connecting
createMatchStream(w, id) ==
  LET h == FreshHandle(w.r.streams, w.r.streamRef)
  IN [w EXCEPT !.r.streams = @ \cup {[h |-> h, id |-> id, readyState |-> "connecting"]},
               !.r.streamRef = h]

\* openStream without its closeStream()
openStream_NoClose(w, id) == createMatchStream(w, id)
openStream(w, id) == createMatchStream(closeStream(w), id)

\* the EventSource calling one handler: onopen and the four event listeners of
\* createMatchStream, each parsing the data and passing it on
streamDispatch(w, ev) ==
  CASE ev.kind = "open" -> streamOnOpen(w)
    [] ev.kind = "match_started" -> streamOnMatchStarted(w, ev)
    [] ev.kind = "clock" -> streamOnClock(w, ev)
    [] ev.kind = "move" -> streamOnMove(w, ev)
    [] ev.kind = "result" -> streamOnResult(w, ev)

\* onError scheduling the retry without closing the EventSource that failed
streamOnError_KeepsSource(w, id) ==
  LET w1 == [w EXCEPT !.s.status = "reconnecting"]
      h == FreshHandle(w1.r.timers, w1.r.reconnectTimerRef)
  IN [w1 EXCEPT !.r.timers = @ \cup {[h |-> h, id |-> id]},
                !.r.reconnectTimerRef = h]

streamOnError(w, id) ==
  LET w1 == closeStream([w EXCEPT !.s.status = "reconnecting"])
      h == FreshHandle(w1.r.timers, w1.r.reconnectTimerRef)
  IN [w1 EXCEPT !.r.timers = @ \cup {[h |-> h, id |-> id]},
                !.r.reconnectTimerRef = h]

\* the handlers handleStart registers on the simulator (App.tsx 390-407)
mockOnOpen(w) == [w EXCEPT !.s.status = "running"]
mockOnMatchStarted(w, data) ==
  [w EXCEPT !.s.status = "running",
            !.s.fen = IF data.start_fen # <<>> THEN data.start_fen ELSE startFen,
            !.s.pgn = <<>>,
            !.s.result = None]
mockOnClock(w, data) ==
  [w EXCEPT !.s.clocks = Some([white_ms |-> data.white_ms, black_ms |-> data.black_ms])]
mockOnMove(w, data) ==
  [w EXCEPT !.s.fen = data.fen, !.s.pgn = data.pgn, !.s.lastMoveUci = Some(data.uci)]
\* the simulator's onResult without its setStatus('finished')
mockOnResult_KeepsRunning(w, data) ==
  closeStream([w EXCEPT !.s.result = Some([result |-> data.result, reason |-> data.reason])])

mockOnResult(w, data) ==
  closeStream([w EXCEPT !.s.result = Some([result |-> data.result, reason |-> data.reason]),
                        !.s.status = "finished"])

\* the simulator calling one handler
mockDispatch(w, ev) ==
  CASE ev.kind = "open" -> mockOnOpen(w)
    [] ev.kind = "match_started" -> mockOnMatchStarted(w, ev)
    [] ev.kind = "clock" -> mockOnClock(w, ev)
    [] ev.kind = "move" -> mockOnMove(w, ev)
    [] ev.kind = "result" -> mockOnResult(w, ev)

RECURSIVE mockDispatchAll(_, _)
mockDispatchAll(w, evs) ==
  IF evs = <<>> THEN w ELSE mockDispatchAll(mockDispatch(w, Head(evs)), Tail(evs))

\* resetMatch without its closeStream()
resetMatch_NoClose(w) ==
  [w EXCEPT !.s.matchId = None, !.s.fen = startFen, !.s.pgn = <<>>,
            !.s.clocks = None, !.s.result = None, !.s.lastMoveUci = None,
            !.s.status = "idle", !.s.error = None]
resetMatch(w) ==
  LET w1 == closeStream(w)
  IN [w1 EXCEPT !.s.matchId = None, !.s.fen = startFen, !.s.pgn = <<>>,
                !.s.clocks = None, !.s.result = None, !.s.lastMoveUci = None,
                !.s.status = "idle", !.s.error = None]

\* the engine-loading effect's then-callback (App.tsx 332-338)
enginesLoaded(w, list) ==
  [w EXCEPT !.s.engines = list,
            !.s.whiteEngineId = IF Len(list) >= 1 THEN list[1] ELSE "",
            !.s.blackEngineId = IF Len(list) >= 2 THEN list[2]
                                ELSE IF Len(list) >= 1 THEN list[1] ELSE "",
            !.s.status = "idle"]

\* the engine-loading effect's catch-callback (App.tsx 339-343)
enginesFailed(w) ==
  [w EXCEPT !.s.status = "error", !.s.error = Some("Failed to load engines")]

\* App's first render: the useState and useRef initial values (App.tsx 240-256)
InitWorld ==
  [s |-> [engines |-> <<>>, matchId |-> None, fen |-> startFen, pgn |-> <<>>,
          clocks |-> None, result |-> None, status |-> "idle", error |-> None,
          lastMoveUci |-> None, useMocks |-> TRUE,
          whiteEngineId |-> "", blackEngineId |-> ""],
   r |-> [streamRef |-> 0, reconnectTimerRef |-> 0, mockStreamRef |-> 0,
          streams |-> {}, timers |-> {}, mocks |-> {}]]

AppInit ==
  /\ state = InitWorld.s
  /\ refs = InitWorld.r
  /\ requests = 0
  /\ fetching = FALSE
  /\ effectDue = TRUE
  /\ lastOp = [op |-> "render", from |-> "idle", retryPending |-> FALSE]

Commit(w, op) ==
  /\ state' = w.s
  /\ refs' = w.r
  /\ lastOp' = [op |-> op, from |-> state.status, retryPending |-> refs.timers # {}]

\* the engine-loading effect runs right after the render that changed useMocks, before
\* any other task: the previous run's cleanup clears its `active`, so that a request
\* still in flight returns without effect when it settles (if (!active) return) and is
\* dropped here; status becomes loading and, with mocks, getMockEngines' resolved
\* promise sets the engines in the same turn
RunEngineEffect ==
  /\ effectDue
  /\ effectDue' = FALSE
  /\ LET w == [World EXCEPT !.s.status = "loading"]
     IN IF state.useMocks
        THEN /\ Commit(enginesLoaded(w, mockEngines), "effect")
             /\ fetching' = FALSE
        ELSE /\ Commit(w, "effect")
             /\ fetching' = TRUE
  /\ UNCHANGED <<requests, sim, emitted, fold, wire, given, moved>>

\* the part of handleStart that runs when createMockMatch's promise resolves
mockMatchCreated(w, initialMs) ==
  LET w1 == [w EXCEPT !.s.matchId = Some(MockMatchId)]
      made == createMockStream(initialMs)
      w2 == mockDispatchAll(w1, made.events)
      h == FreshHandle(w2.r.mocks, w2.r.mockStreamRef)
  IN [w2 EXCEPT !.r.mocks = @ \cup {[h |-> h, sim |-> made.sim]},
                !.r.mockStreamRef = h]

\* handleStart without its closeStream()
startConnecting_NoClose(w) ==
  [w EXCEPT !.s.error = None, !.s.status = "connecting", !.s.pgn = <<>>,
            !.s.result = None]

\* handleStart up to the match-creation request (App.tsx 379-383)
startConnecting(w) ==
  LET w1 == closeStream([w EXCEPT !.s.error = None, !.s.status = "connecting"])
  IN [w1 EXCEPT !.s.pgn = <<>>, !.s.result = None]

\* the Start button is enabled (App.tsx 526)
StartEnabled == state.status \notin {"running", "connecting"} /\ Len(state.engines) # 0

\* what the user attempts to start with: an engine selection is missing or the time
\* control is not positive
StartWithoutInputs(s, initialMs) ==
  s.whiteEngineId = "" \/ s.blackEngineId = "" \/ initialMs <= 0

\* mutant: the time control is not checked
startRefusal_EnginesOnly(s, initialMs) ==
  IF s.whiteEngineId = "" \/ s.blackEngineId = ""
  THEN Some("Select both engines to start a match.")
  ELSE None

\* handleStart's precondition checks (App.tsx 371-378): the message, or none
startRefusal(s, initialMs) ==
  IF s.whiteEngineId = "" \/ s.blackEngineId = ""
  THEN Some("Select both engines to start a match.")
  ELSE IF initialMs <= 0
  THEN Some("Time control must be greater than 0 seconds.")
  ELSE None

\* a click on Start with the time control initialMs; with mocks the promise of
\* createMockMatch is already resolved and its callback runs before any other task
HandleStart(initialMs) ==
  /\ ~effectDue
  /\ StartEnabled
  /\ LET op == IF StartWithoutInputs(state, initialMs) THEN "startRefused" ELSE "start"
     IN IF startRefusal(state, initialMs) # None
        THEN /\ Commit([World EXCEPT !.s.error = startRefusal(state, initialMs)], op)
             /\ UNCHANGED requests
        ELSE IF state.useMocks
        THEN /\ Commit(mockMatchCreated(startConnecting(World), initialMs), op)
             /\ UNCHANGED requests
        ELSE /\ requests < MaxRequests
             /\ Commit(startConnecting(World), op)
             /\ requests' = requests + 1
  /\ UNCHANGED <<fetching, effectDue, sim, emitted, fold, wire, given, moved>>

\* POST /api/match answers: setMatchId, openStream (App.tsx 422-425)
CreateMatchResolves ==
  /\ ~effectDue
  /\ requests > 0
  /\ LET id == FreshMatchId(World)
     IN Commit(openStream([World EXCEPT !.s.matchId = Some(id)], id), "matchCreated")
  /\ requests' = requests - 1
  /\ UNCHANGED <<fetching, effectDue, sim, emitted, fold, wire, given, moved>>

\* POST /api/match fails (App.tsx 426-429)
CreateMatchRejects ==
  /\ ~effectDue
  /\ requests > 0
  /\ Commit([World EXCEPT !.s.status = "error",
                          !.s.error = Some("Failed to create match")], "matchFailed")
  /\ requests' = requests - 1
  /\ UNCHANGED <<fetching, effectDue, sim, emitted, fold, wire, given, moved>>

WithStream(w, x, y) == [w EXCEPT !.r.streams = (@ \ {x}) \cup {y}]

\* EventSource.onopen
StreamOpen(x) ==
  /\ ~effectDue
  /\ x.readyState = "connecting"
  /\ Commit(streamOnOpen(WithStream(World, x, [x EXCEPT !.readyState = "open"])),
            "onOpen")
  /\ UNCHANGED <<requests, fetching, effectDue, sim, emitted, fold, wire, given, moved>>

StreamMatchStarted(x, start_fen) ==
  /\ ~effectDue
  /\ x.readyState = "open"
  /\ Commit(streamOnMatchStarted(World, EvMatchStarted(x.id, start_fen)), "onMatchStarted")
  /\ UNCHANGED <<requests, fetching, effectDue, sim, emitted, fold, wire, given, moved>>

StreamClock(x, data) ==
  /\ ~effectDue
  /\ x.readyState = "open"
  /\ Commit(streamOnClock(World, data), "onClock")
  /\ UNCHANGED <<requests, fetching, effectDue, sim, emitted, fold, wire, given, moved>>

StreamMove(x, data) ==
  /\ ~effectDue
  /\ x.readyState = "open"
  /\ Commit(streamOnMove(World, data), "onMove")
  /\ UNCHANGED <<requests, fetching, effectDue, sim, emitted, fold, wire, given, moved>>

StreamResult(x, data) ==
  /\ ~effectDue
  /\ x.readyState = "open"
  /\ Commit(streamOnResult(World, data), "onResult")
  /\ UNCHANGED <<requests, fetching, effectDue, sim, emitted, fold, wire, given, moved>>

\* EventSource.onerror: an EventSource that is not closed goes back to connecting
StreamError(x) ==
  /\ ~effectDue
  /\ Commit(streamOnError(WithStream(World, x, [x EXCEPT !.readyState = "connecting"]), x.id),
            "onError")
  /\ UNCHANGED <<requests, fetching, effectDue, sim, emitted, fold, wire, given, moved>>

\* the reconnect timeout fires: openStream(id) (App.tsx 308)
RetryFires(t) ==
  /\ ~effectDue
  /\ Commit(openStream([World EXCEPT !.r.timers = @ \ {t}], t.id), "retry")
  /\ UNCHANGED <<requests, fetching, effectDue, sim, emitted, fold, wire, given, moved>>

\* a simulator whose intervals are both cleared can never call a handler again
LiveMocks(w) == [w EXCEPT !.r.mocks = {m \in @ : m.sim.clockTimer \/ m.sim.moveTimer}]

\* one interval callback of the simulator m: what it did to the simulator and the
\* handlers it called, in the one turn it runs in
MockTimerFired(m, fired, op) ==
  /\ ~effectDue
  /\ \E w \in {LiveMocks(mockDispatchAll(
                  [World EXCEPT !.r.mocks = (@ \ {m}) \cup {[m EXCEPT !.sim = fired.sim]}],
                  fired.events))} :
       Commit(w, op)
  /\ UNCHANGED <<requests, fetching, effectDue, sim, emitted, fold, wire, given, moved>>

MockClockFires(m) ==
  /\ m.sim.clockTimer
  /\ \E fired \in {clockTimerFires(m.sim)} : MockTimerFired(m, fired, "mockClock")

MockMoveFires(m) ==
  /\ m.sim.moveTimer
  /\ \E fired \in {moveTimerFires(m.sim)} :
       MockTimerFired(m, fired,
                      IF m.sim.moveIndex < Len(mockMoves) THEN "mockMove" ELSE "mockResult")

\* a click on Stop (enabled while running or connecting, App.tsx 534)
StopClicked ==
  /\ ~effectDue
  /\ state.status \in {"running", "connecting"}
  /\ Commit(resetMatch(World), "stop")
  /\ UNCHANGED <<requests, fetching, effectDue, sim, emitted, fold, wire, given, moved>>

\* a click on the mock toggle: resetMatch, setUseMocks (App.tsx 541-544); the render
\* that follows makes the engine-loading effect due
ToggleClicked ==
  /\ ~effectDue
  /\ Commit([resetMatch(World) EXCEPT !.s.useMocks = ~@], "toggle")
  /\ effectDue' = TRUE
  /\ UNCHANGED <<requests, fetching, sim, emitted, fold, wire, given, moved>>

\* GET /api/engines answers while its effect is still active (App.tsx 332-338)
EnginesResolve(list) ==
  /\ ~effectDue
  /\ fetching
  /\ Commit(enginesLoaded(World, list), "enginesLoaded")
  /\ fetching' = FALSE
  /\ UNCHANGED <<requests, effectDue, sim, emitted, fold, wire, given, moved>>

\* GET /api/engines fails while its effect is still active (App.tsx 339-343)
EnginesReject ==
  /\ ~effectDue
  /\ fetching
  /\ Commit(enginesFailed(World), "enginesFailed")
  /\ fetching' = FALSE
  /\ UNCHANGED <<requests, effectDue, sim, emitted, fold, wire, given, moved>>

Init ==
  /\ AppInit
  /\ sim = None
  /\ emitted = None
  /\ fold = None
  /\ wire = None
  /\ given = None
  /\ moved = None

Next ==
  \/ RunEngineEffect
  \/ \E initialMs \in InitialMsChoices : HandleStart(initialMs)
  \/ CreateMatchResolves
  \/ CreateMatchRejects
  \/ \E x \in refs.streams : StreamOpen(x)
  \/ \E x \in refs.streams : \E f \in StartFenChoices : StreamMatchStarted(x, f)
  \/ \E x \in refs.streams : \E c \in ClockChoices : StreamClock(x, c)
  \/ \E x \in refs.streams : \E m \in MoveChoices : StreamMove(x, m)
  \/ \E x \in refs.streams : \E r \in ResultChoices : StreamResult(x, r)
  \/ \E x \in refs.streams : StreamError(x)
  \/ \E t \in refs.timers : RetryFires(t)
  \/ \E m \in refs.mocks : MockClockFires(m)
  \/ \E m \in refs.mocks : MockMoveFires(m)
  \/ StopClicked
  \/ ToggleClicked
  \/ \E list \in EngineLists : EnginesResolve(list)
  \/ EnginesReject

Spec == Init /\ [][Next]_vars

\* ------------------------------------------------- a mock session left to run
\* App with mock data on, the user only starting matches (never stopping, never
\* switching mock data off): the callbacks left are the engine-loading effect,
\* handleStart and the simulator's two intervals. An interval that was set and not
\* cleared keeps firing (setInterval, api.ts 198 and 205), so each of the two is
\* weakly fair.
LiveNext ==
  \/ RunEngineEffect
  \/ \E initialMs \in InitialMsChoices : HandleStart(initialMs)
  \/ \E m \in refs.mocks : MockClockFires(m)
  \/ \E m \in refs.mocks : MockMoveFires(m)

SpecLive ==
  /\ Init
  /\ [][LiveNext]_vars
  /\ WF_vars(\E m \in refs.mocks : MockClockFires(m))
  /\ WF_vars(\E m \in refs.mocks : MockMoveFires(m))

\* ------------------------------------------------- the simulator on its own
\* createMockStream(initialMs, handlers) with handlers that only record what they are
\* called with: the count of calls per handler but onClock, the kinds of the first two events, the
\* last two Clock payloads, the last Move payload, and how many calls came after a
\* Result or after the caller's close()
record(e, ev) ==
  LET e1 == [e EXCEPT !.afterResult = IF e.results > 0 THEN @ + 1 ELSE @,
                      !.afterClose = IF e.closes > 0 THEN @ + 1 ELSE @,
                      !.first = IF Len(@) < 2 THEN Append(@, ev.kind) ELSE @]
  IN CASE ev.kind = "open" -> [e1 EXCEPT !.opens = @ + 1]
       [] ev.kind = "match_started" -> [e1 EXCEPT !.starts = @ + 1, !.started = Some(ev)]
       [] ev.kind = "clock" -> [e1 EXCEPT !.prevClock = e.lastClock, !.lastClock = Some(ev)]
       [] ev.kind = "move" -> [e1 EXCEPT !.moves = @ + 1, !.lastMove = Some(ev)]
       [] ev.kind = "result" -> [e1 EXCEPT !.results = @ + 1, !.lastResult = Some(ev)]

RECURSIVE recordAll(_, _)
recordAll(e, evs) == IF evs = <<>> THEN e ELSE recordAll(record(e, Head(evs)), Tail(evs))

NothingEmitted(initialMs) ==
  [initialMs |-> initialMs, opens |-> 0, starts |-> 0, moves |-> 0,
   results |-> 0, closes |-> 0, afterResult |-> 0, afterClose |-> 0, first |-> <<>>,
   started |-> None, prevClock |-> None, lastClock |-> None, lastMove |-> None,
   lastResult |-> None]

SimInit ==
  /\ AppInit
  /\ \E initialMs \in InitialMsChoices \ {0} :
       LET made == createMockStream(initialMs)
       IN /\ sim = made.sim
          /\ emitted = recordAll(NothingEmitted(initialMs), made.events)
  /\ fold = None
  /\ wire = None
  /\ given = None
  /\ moved = None

SimClockFires ==
  /\ sim.clockTimer
  /\ LET fired == clockTimerFires(sim)
     IN /\ sim' = fired.sim
        /\ emitted' = recordAll(emitted, fired.events)
  /\ UNCHANGED <<appVars, fold, wire, given, moved>>

SimMoveFires ==
  /\ sim.moveTimer
  /\ LET fired == moveTimerFires(sim)
     IN /\ sim' = fired.sim
        /\ emitted' = recordAll(emitted, fired.events)
  /\ UNCHANGED <<appVars, fold, wire, given, moved>>

\* the caller closes the handle (at most twice here: a second close changes nothing)
SimClose ==
  /\ emitted.closes < 2
  /\ sim' = mockClose(sim)
  /\ emitted' = [emitted EXCEPT !.closes = @ + 1]
  /\ UNCHANGED <<appVars, fold, wire, given, moved>>

SimNext == SimClockFires \/ SimMoveFires \/ SimClose

SpecSim == SimInit /\ [][SimNext]_vars

\* ------------------------------------------------- the two handler sets side by side
\* the same events handed to the handlers openStream registers and to the handlers
\* handleStart registers on the simulator, from the same state cells

\* events folded at most
MaxFold == 3

\* the statuses in which an event source is attached and can deliver its first event
FoldStartStatuses == {"connecting", "reconnecting", "running"}

FoldEvents ==
  {EvOpen}
    \cup {EvMatchStarted(MatchId(1), f) : f \in StartFenChoices}
    \cup ClockChoices \cup MoveChoices \cup ResultChoices

\* the state cells after handleStart and the answer's setMatchId, in the status given
FoldStart(status) ==
  [startConnecting(enginesLoaded(InitWorld, mockEngines))
     EXCEPT !.s.matchId = Some(MatchId(1)), !.s.status = status]

\* the fields of SessionState
SessionState(s) ==
  [status |-> s.status, fen |-> s.fen, pgn |-> s.pgn, clocks |-> s.clocks,
   lastMoveUci |-> s.lastMoveUci, result |-> s.result]

FoldInit ==
  /\ AppInit
  /\ sim = None
  /\ emitted = None
  /\ wire = None
  /\ given = None
  /\ moved = None
  /\ \E status \in FoldStartStatuses :
       LET w == FoldStart(status)
           made == createMockStream(0)
       IN fold = Some([start |-> status,
                       events |-> <<>>,
                       viaStream |-> createMatchStream(w, MatchId(1)),
                       viaMock |-> [w EXCEPT !.r.mocks = {[h |-> 1, sim |-> made.sim]},
                                             !.r.mockStreamRef = 1]])

\* one more event, while both sources are open
FoldEvent(ev) ==
  LET f == Val(fold)
  IN /\ Len(f.events) < MaxFold
     /\ f.viaStream.r.streams # {}
     /\ f.viaMock.r.mocks # {}
     /\ fold' = Some([f EXCEPT !.events = Append(@, ev),
                               !.viaStream = streamDispatch(@, ev),
                               !.viaMock = mockDispatch(@, ev)])
     /\ UNCHANGED <<appVars, simVars, wire, given, moved>>

FoldNext == \E ev \in FoldEvents : FoldEvent(ev)

SpecFold == FoldInit /\ [][FoldNext]_vars

\* ------------------------------------------------- the Stream Client on its own
\* createMatchStream(matchId, handlers) of sse.ts with handlers that only record what
\* they are called with, and an EventSource that delivers what the server sends

\* wire messages delivered at most
MaxWire == 3

\* the data of a wire message: the JSON text of a payload, or text that is not JSON
JsonOf(payload) == [json |-> TRUE, value |-> payload]
NotJson == [json |-> FALSE, text |-> <<"{">>]

\* parseEvent: JSON.parse(event.data), which throws a SyntaxError on text that is not
\* JSON
parseEvent(data) ==
  IF data.json THEN [threw |-> FALSE, value |-> data.value] ELSE [threw |-> TRUE]

\* new EventSource(url) and the handle createMatchStream returns
sseCreate ==
  [readyState |-> "connecting", log |-> <<>>, arrived |-> 0, uncaught |-> 0,
   closes |-> 0, afterClose |-> 0, last |-> None]

\* a handler is called
sseCall(w, call) ==
  [w EXCEPT !.log = Append(@, call),
            !.afterClose = IF w.closes > 0 THEN @ + 1 ELSE @]

\* source.onopen
sseOnOpen(w) == sseCall([w EXCEPT !.readyState = "open"], EvOpen)

\* the listener of one event kind: the handler is called with the parsed data; an
\* exception of parseEvent is caught nowhere and leaves the listener
sseListener(w, kind, data) ==
  LET parsed == parseEvent(data)
      w1 == [w EXCEPT !.arrived = @ + 1, !.last = Some([kind |-> kind, data |-> data])]
  IN IF parsed.threw
     THEN [w1 EXCEPT !.uncaught = @ + 1]
     ELSE sseCall(w1, parsed.value)

\* source.onerror; the EventSource goes back to connecting, or gives up and is closed
sseOnError(w, fatal) ==
  sseCall([w EXCEPT !.readyState = IF fatal THEN "closed" ELSE "connecting"],
          [kind |-> "error"])

\* the handle's close(): source.close()
sseClose(w) == [w EXCEPT !.readyState = "closed", !.closes = @ + 1]

\* what the server can send under each event name
WirePayloads(kind) ==
  CASE kind = "match_started" -> {EvMatchStarted(MatchId(1), f) : f \in StartFenChoices}
    [] kind = "clock" -> ClockChoices
    [] kind = "move" -> MoveChoices
    [] kind = "result" -> ResultChoices
WireKinds == {"match_started", "clock", "move", "result"}
WireData(kind) == {JsonOf(p) : p \in WirePayloads(kind)} \cup {NotJson}

WireInit ==
  /\ AppInit
  /\ sim = None
  /\ emitted = None
  /\ fold = None
  /\ wire = Some(sseCreate)
  /\ given = None
  /\ moved = None

WireOpens ==
  /\ Val(wire).readyState = "connecting"
  /\ wire' = Some(sseOnOpen(Val(wire)))
  /\ UNCHANGED <<appVars, simVars, fold, given, moved>>

WireMessage(kind, data) ==
  /\ Val(wire).readyState = "open"
  /\ Val(wire).arrived < MaxWire
  /\ wire' = Some(sseListener(Val(wire), kind, data))
  /\ UNCHANGED <<appVars, simVars, fold, given, moved>>

WireFails(fatal) ==
  /\ Val(wire).readyState # "closed"
  /\ Len(Val(wire).log) < MaxWire + 2
  /\ wire' = Some(sseOnError(Val(wire), fatal))
  /\ UNCHANGED <<appVars, simVars, fold, given, moved>>

\* the caller closes the handle (at most twice here: a second close changes nothing)
WireClose ==
  /\ Val(wire).closes < 2
  /\ wire' = Some(sseClose(Val(wire)))
  /\ UNCHANGED <<appVars, simVars, fold, given, moved>>

WireNext ==
  \/ WireOpens
  \/ \E kind \in WireKinds : \E data \in WireData(kind) : WireMessage(kind, data)
  \/ \E fatal \in BOOLEAN : WireFails(fatal)
  \/ WireClose

SpecWire == WireInit /\ [][WireNext]_vars

\* ------------------------------------------------- parseFen on its own
\* parseFen given the standard start position with some of its ranks rewritten

\* ranks rewritten at most
MaxEdits == 2
MaxApplied == 2

\* rank texts: full ranks, ranks short of or beyond 8 squares, unknown characters
RankChoices ==
  {<<"8">>, <<"4", "P", "3">>, <<"p", "p", "p", "p", "p", "p", "p", "p">>,
   <<"7">>, <<"4", "5">>, <<"9">>, <<"x", "7">>}

ParseInit ==
  /\ AppInit
  /\ sim = None
  /\ emitted = None
  /\ fold = None
  /\ wire = None
  /\ given = Some([ranks |-> Split(Split(startFen, " ")[1], "/"), edits |-> 0])
  /\ moved = None

\* the fen parseFen is given
GivenFen == Join(Val(given).ranks, <<"/">>) \o <<" ", "w">> \o fenTail

RewriteRank(i, rank) ==
  /\ Val(given).edits < MaxEdits
  /\ given' = Some([ranks |-> [Val(given).ranks EXCEPT ![i] = rank],
                    edits |-> Val(given).edits + 1])
  /\ UNCHANGED <<appVars, simVars, fold, wire, moved>>

ParseNext == \E i \in 1..8 : \E rank \in RankChoices : RewriteRank(i, rank)

SpecParse == ParseInit /\ [][ParseNext]_vars

\* ------------------------------------------------- applyUciMove on its own

\* both sides able to castle either way, a White pawn on a7 and a Black pawn on h2
castlingBoard ==
  << <<"r", Null, Null, Null, "k", Null, Null, "r">>,
     <<"P", Null, Null, Null, Null, Null, Null, Null>>,
     <<Null, Null, Null, Null, Null, Null, Null, Null>>,
     <<Null, Null, Null, Null, Null, Null, Null, Null>>,
     <<Null, Null, Null, Null, Null, Null, Null, Null>>,
     <<Null, Null, Null, Null, Null, Null, Null, Null>>,
     <<Null, Null, Null, Null, Null, Null, Null, "p">>,
     <<"R", Null, Null, Null, "K", Null, Null, "R">> >>

BoardChoices == {createStartBoard, castlingBoard}

\* the four castling codes, moves of the script, the two promotions, a king and a
\* rook leaving their squares, a move back onto e1 and a move from an empty square
UciChoices ==
  { <<"e", "1", "g", "1">>, <<"e", "1", "c", "1">>,
    <<"e", "8", "g", "8">>, <<"e", "8", "c", "8">>,
    <<"e", "2", "e", "4">>, <<"g", "8", "f", "6">>,
    <<"a", "7", "a", "8", "q">>, <<"h", "2", "h", "1", "n">>,
    <<"e", "1", "e", "2">>, <<"h", "1", "h", "3">>,
    <<"a", "1", "e", "1">>, <<"d", "4", "d", "5">> }

MoveInit ==
  /\ state = None /\ refs = None /\ requests = None /\ fetching = None
  /\ effectDue = None /\ lastOp = None
  /\ sim = None /\ emitted = None
  /\ fold = None
  /\ wire = None
  /\ given = None
  /\ \E b \in BoardChoices :
       moved = Some([before |-> b, uci |-> <<>>, board |-> b, applied |-> 0])

ApplyMove(uci) ==
  /\ Val(moved).applied < MaxApplied
  /\ moved' = Some([before |-> Val(moved).board,
                    uci |-> uci,
                    board |-> applyUciMove(Val(moved).board, uci),
                    applied |-> Val(moved).applied + 1])
  /\ UNCHANGED <<appVars, simVars, fold, wire, given>>

MoveNext == \E uci \in UciChoices : ApplyMove(uci)

SpecMove == MoveInit /\ [][MoveNext]_vars

\* ------------------------------------------------------------------ claims

\* C9: the simulator never emits more than one Result; a Result comes only once all
\* the script's Move events (one per entry of mockMoves, none beyond) have been
\* emitted; no handler is called after the Result; and unless the caller closed the
\* handle, the move timer stops only by emitting the Result.
C9_OneResultAfterAllMoves ==
  /\ emitted.results <= 1
  /\ emitted.moves <= Len(mockMoves)
  /\ emitted.moves = sim.moveIndex
  /\ emitted.results = 1 =>
       /\ emitted.moves = Len(mockMoves)
       /\ emitted.afterResult = 0
       /\ ~sim.clockTimer /\ ~sim.moveTimer
  /\ (emitted.closes = 0 /\ ~sim.moveTimer) => emitted.results = 1

C9_Witness ==
  /\ emitted.results = 1
  /\ emitted.moves = Len(mockMoves)
  /\ emitted.closes = 0
  /\ emitted.lastClock # None

\* the previous clock value of a Clock event: the previous event's, or initialMs
PrevClockMs(side) ==
  IF emitted.prevClock = None THEN emitted.initialMs
  ELSE IF side = "w" THEN Val(emitted.prevClock).white_ms ELSE Val(emitted.prevClock).black_ms

\* C10 as stated: every Clock event shows both sides exactly 200 ms below the previous
\* one (the first exactly 200 ms below initialMs) and never negative.
C10_Original ==
  emitted.lastClock # None =>
    /\ Val(emitted.lastClock).white_ms >= 0
    /\ Val(emitted.lastClock).black_ms >= 0
    /\ Val(emitted.lastClock).white_ms = PrevClockMs("w") - ClockStepMs
    /\ Val(emitted.lastClock).black_ms = PrevClockMs("b") - ClockStepMs

\* C10 amended: every Clock event shows both sides never negative, not above the
\* previous value, and exactly 200 ms below it unless that would be negative, in which
\* case it shows 0 (and keeps showing 0 on every later tick).
C10_ClampedDecrease ==
  emitted.lastClock # None =>
    /\ Val(emitted.lastClock).white_ms >= 0
    /\ Val(emitted.lastClock).black_ms >= 0
    /\ Val(emitted.lastClock).white_ms <= PrevClockMs("w")
    /\ Val(emitted.lastClock).black_ms <= PrevClockMs("b")
    /\ Val(emitted.lastClock).white_ms =
         (IF PrevClockMs("w") >= ClockStepMs THEN PrevClockMs("w") - ClockStepMs ELSE 0)
    /\ Val(emitted.lastClock).black_ms =
         (IF PrevClockMs("b") >= ClockStepMs THEN PrevClockMs("b") - ClockStepMs ELSE 0)

\* a Clock event that was clamped: the previous value was below 200 ms
C10_Witness ==
  /\ emitted.lastClock # None
  /\ emitted.prevClock # None
  /\ Val(emitted.prevClock).white_ms > 0
  /\ Val(emitted.prevClock).white_ms < ClockStepMs
  /\ Val(emitted.lastClock).white_ms = 0
  /\ emitted.results = 0

\* the event sources that can still call a handler: EventSources not closed and
\* simulators with a running interval
LiveSources == Cardinality(refs.streams) + Cardinality(refs.mocks)

\* the session state cells but status
Cells(s) == <<s.matchId, s.fen, s.pgn, s.clocks, s.lastMoveUci, s.result>>

\* C1: an onError received while running, connecting or reconnecting sets status to
\* reconnecting (never error), closes the event handle and leaves exactly one retry
\* scheduled, for the stream's match id; and a scheduled retry stays scheduled until a
\* stop or a start cancels it or until it fires, and when it fires it opens exactly one
\* connection, for the same match id.
C1_RetryAfterError ==
  [][ /\ (lastOp'.op = "onError" /\ state.status \in {"running", "connecting", "reconnecting"})
           => /\ state'.status = "reconnecting"
              /\ refs'.streams = {} /\ refs'.streamRef = 0
              /\ \E x \in refs.streams :
                   refs'.timers = {[h |-> refs'.reconnectTimerRef, id |-> x.id]}
      /\ (refs.timers # {} /\ refs'.timers # refs.timers)
           => \/ lastOp'.op \in {"start", "stop", "toggle"}
              \/ /\ lastOp'.op = "retry"
                 /\ refs'.timers = {}
                 /\ \E t \in refs.timers :
                      refs'.streams = {[h |-> refs'.streamRef, id |-> t.id,
                                        readyState |-> "connecting"]}
    ]_vars

\* C1 without its last clause's "no stop or start intervenes": the answer of a
\* match-creation request that was in flight may cancel the retry as well
C1_ModuloStaleAnswers ==
  [][ /\ (lastOp'.op = "onError" /\ state.status \in {"running", "connecting", "reconnecting"})
           => /\ state'.status = "reconnecting"
              /\ refs'.streams = {} /\ refs'.streamRef = 0
              /\ \E x \in refs.streams :
                   refs'.timers = {[h |-> refs'.reconnectTimerRef, id |-> x.id]}
      /\ (refs.timers # {} /\ refs'.timers # refs.timers)
           => \/ lastOp'.op \in {"start", "stop", "toggle", "matchCreated"}
              \/ /\ lastOp'.op = "retry"
                 /\ refs'.timers = {}
                 /\ \E t \in refs.timers :
                      refs'.streams = {[h |-> refs'.streamRef, id |-> t.id,
                                        readyState |-> "connecting"]}
    ]_vars

\* C2: a stop (Stop or the mock toggle) or a start that passes its precondition checks,
\* run while a retry is scheduled, leaves no timeout pending and the timer ref null; and
\* no timeout is ever pending that the timer ref does not hold, so that a cancelled
\* retry cannot fire later.
C2_StopOrStartCancelsRetry ==
  /\ (lastOp.op \in {"start", "stop", "toggle"} /\ lastOp.retryPending)
       => (refs.timers = {} /\ refs.reconnectTimerRef = 0)
  /\ \A t \in refs.timers : t.h = refs.reconnectTimerRef

\* a start has just cancelled a scheduled retry
C2_Witness ==
  /\ lastOp.op = "start"
  /\ lastOp.retryPending
  /\ lastOp.from = "reconnecting"
  /\ refs.timers = {}

\* C3: whatever the status, resetMatch (Stop and the mock toggle) leaves status idle,
\* matchId null, the standard initial position, no moves, no clocks, no last move, no
\* result, no live event source and no pending reconnect timeout.
C3_StopResetsSession ==
  lastOp.op \in {"stop", "toggle"} =>
    /\ state.status = "idle"
    /\ state.matchId = None
    /\ state.fen = startFen
    /\ state.pgn = <<>>
    /\ state.clocks = None
    /\ state.lastMoveUci = None
    /\ state.result = None
    /\ LiveSources = 0
    /\ refs.streamRef = 0 /\ refs.mockStreamRef = 0
    /\ refs.timers = {} /\ refs.reconnectTimerRef = 0

\* a stop that found a finished match with moves, clocks and a result to clear
C3_Witness ==
  /\ lastOp.op = "toggle"
  /\ lastOp.from = "finished"
  /\ state.status = "idle"

\* C5: at most one event source (EventSource or simulator) is live, and at most one
\* reconnect timeout is pending.
C5_OneSourceOneTimer ==
  /\ LiveSources <= 1
  /\ Cardinality(refs.timers) <= 1

\* the answer of a match-creation request has replaced a running simulator by a stream
C5_Witness ==
  /\ lastOp.op = "matchCreated"
  /\ state.useMocks
  /\ lastOp.from = "running"
  /\ Cardinality(refs.streams) = 1
  /\ refs.mocks = {}

\* C4: a Result sets result to the value received, status to finished and closes the
\* event source it came from, which can then deliver nothing more; and the status,
\* once finished, changes only by a start or a stop (Stop or the mock toggle).
C4_FinishedUntilStartOrStop ==
  [][ /\ lastOp'.op \in {"onResult", "mockResult"}
           => /\ state'.status = "finished"
              /\ state'.result # None
              /\ state'.result \in {Some([result |-> r.result, reason |-> r.reason]) :
                                      r \in ResultChoices \cup {EvResult("1-0", "checkmate")}}
              /\ refs'.streams = {} /\ refs'.mocks = {}
      /\ (state.status = "finished" /\ state'.status # "finished")
           => lastOp'.op \in {"start", "stop", "toggle"}
    ]_vars

\* C4 where the answers of requests that were in flight, and the events of a stream
\* such an answer has opened, may also change the status
C4_ModuloStaleAnswers ==
  [][ /\ lastOp'.op \in {"onResult", "mockResult"}
           => /\ state'.status = "finished"
              /\ state'.result # None
              /\ refs'.streams = {} /\ refs'.mocks = {}
      /\ (state.status = "finished" /\ state'.status # "finished")
           => lastOp'.op \in {"start", "stop", "toggle",
                              "enginesLoaded", "enginesFailed", "matchFailed",
                              "onMatchStarted", "onError"}
    ]_vars

\* C6: from the same SessionState, the same events folded through the handlers of the
\* Stream Client and through the handlers of the Simulator give the same SessionState
\* after every event.
C6_SourceAgnostic ==
  fold # None =>
    SessionState(Val(fold).viaStream.s) = SessionState(Val(fold).viaMock.s)

C8_OnOpenResumes ==
  [][ /\ lastOp'.op = "onOpen"
           => state' = [state EXCEPT !.status = IF @ = "reconnecting" THEN "running" ELSE @]
      /\ lastOp'.op \in {"onError", "retry"} => Cells(state') = Cells(state)
    ]_vars

\* a session with moves and clocks has resumed after a transport failure
C8_Witness ==
  /\ lastOp.op = "onOpen"
  /\ lastOp.from = "reconnecting"
  /\ state.status = "running"
  /\ state.pgn # <<>>
  /\ state.clocks # None

\* C11: the Simulator's first two handler calls are onOpen and then MatchStarted, made
\* once each while createMockStream runs, before any timer can fire; the MatchStarted
\* carries the standard initial position, which is also the board the script starts on.
C11_OpenThenMatchStarted ==
  /\ emitted.first = <<"open", "match_started">>
  /\ emitted.opens = 1
  /\ emitted.starts = 1
  /\ Val(emitted.started).start_fen = startFen
  /\ Split(startFen, " ")[1] = boardToPlacement(createStartBoard)

\* Clock and Move events have followed the two opening calls
C11_Witness ==
  /\ emitted.first = <<"open", "match_started">>
  /\ emitted.lastClock # None
  /\ emitted.moves = 2

\* C12: the k-th Move event carries ply k and the uci and san of the k-th script
\* entry (the first: ply 1, e2e4, e4), and the side-to-move field of its fen is b
\* after an odd ply and w after an even one.
C12_PlyScriptAndSide ==
  emitted.lastMove # None =>
    LET m == Val(emitted.lastMove)
    IN /\ m.ply = emitted.moves
       /\ m.ply \in 1..Len(mockMoves)
       /\ m.uci = mockMoves[m.ply].uci
       /\ m.san = mockMoves[m.ply].san
       /\ m.ply = 1 => (m.uci = <<"e", "2", "e", "4">> /\ m.san = <<"e", "4">>)
       /\ Split(m.fen, " ")[2] = IF m.ply % 2 = 1 THEN <<"b">> ELSE <<"w">>

\* the second Move event: ply 2, White to move again
C12_Witness ==
  /\ emitted.lastMove # None
  /\ emitted.moves = 2
  /\ Val(emitted.lastMove).ply = 2
  /\ Split(Val(emitted.lastMove).fen, " ")[2] = <<"w">>

\* Stream Client handles before any message, after onOpen and after a message
WireSamples ==
  {sseCreate, sseOnOpen(sseCreate)}
    \cup {sseListener(sseOnOpen(sseCreate), "clock", JsonOf(c)) : c \in ClockChoices}

\* C13: after a close() of the Simulator's handle both intervals are cleared and no
\* handler is called again, whether or not a timer had fired before, and a second
\* close() changes nothing; close() of a Stream Client's handle leaves the EventSource
\* closed whatever its state was, and so does a second close(), no handler being called.
C13_CloseIdempotent ==
  /\ emitted.closes >= 1 =>
       /\ sim.closed /\ ~sim.clockTimer /\ ~sim.moveTimer
       /\ emitted.afterClose = 0
  /\ mockClose(mockClose(sim)) = mockClose(sim)
  /\ \A w \in WireSamples :
       /\ sseClose(w).readyState = "closed"
       /\ sseClose(sseClose(w)).readyState = "closed"
       /\ sseClose(sseClose(w)).log = w.log

\* the handle was closed twice before any timer fired
C13_Witness ==
  /\ emitted.closes = 2
  /\ emitted.moves = 0
  /\ emitted.lastClock = None
  /\ ~sim.clockTimer /\ ~sim.moveTimer

\* C14: a wire message whose data is not JSON calls no handler, lets no error leave the
\* Stream Client and leaves the connection as it is; a message whose data is JSON has
\* its handler called with the parsed value, whatever came before it.
C14_MalformedSwallowed ==
  [][ Val(wire').arrived = Val(wire).arrived + 1 =>
        IF Val(Val(wire').last).data.json
        THEN /\ Val(wire').log = Append(Val(wire).log, Val(Val(wire').last).data.value)
             /\ Val(wire').uncaught = Val(wire).uncaught
        ELSE /\ Val(wire').log = Val(wire).log
             /\ Val(wire').readyState = Val(wire).readyState
             /\ Val(wire').uncaught = Val(wire).uncaught
    ]_vars

\* C14 but for the error: the SyntaxError of JSON.parse leaves the listener uncaught
C14_DroppedNotCaught ==
  [][ Val(wire').arrived = Val(wire).arrived + 1 =>
        IF Val(Val(wire').last).data.json
        THEN /\ Val(wire').log = Append(Val(wire).log, Val(Val(wire').last).data.value)
             /\ Val(wire').uncaught = Val(wire).uncaught
        ELSE /\ Val(wire').log = Val(wire).log
             /\ Val(wire').readyState = Val(wire).readyState
             /\ Val(wire').uncaught = Val(wire).uncaught + 1
    ]_vars

\* C15: a click on Start with an engine selection missing or a time control that is
\* not positive sets the error message in the same step and changes nothing else: no
\* other state cell, no ref, no event source, no pending timeout, no request.
C15_RefusedStartChangesNothing ==
  [][ lastOp'.op = "startRefused" =>
        /\ state'.error # None
        /\ state' = [state EXCEPT !.error = state'.error]
        /\ refs' = refs
        /\ requests' = requests
    ]_vars

\* a start with a time control of 0 was refused while a retry was scheduled, and the
\* retry is still scheduled
C15_Witness ==
  /\ lastOp.op = "startRefused"
  /\ lastOp.from = "reconnecting"
  /\ lastOp.retryPending
  /\ refs.timers # {}
  /\ state.status = "reconnecting"
  /\ state.error = Some("Time control must be greater than 0 seconds.")

\* C16: result is non-null only if status is finished.
C16_ResultOnlyWhenFinished ==
  state.result # None => state.status = "finished"

\* C16 is broken only by the answer of a request that was in flight, or by the onError
\* of a stream such an answer has opened
C16_ModuloStaleAnswers ==
  [][ (/\ state'.result # None /\ state'.status # "finished"
       /\ (state.result # None => state.status = "finished"))
        => /\ state.status = "finished"
           /\ lastOp'.op \in {"enginesLoaded", "enginesFailed", "matchFailed", "onError"}
    ]_vars

\* C17: the status becomes error only from loading or connecting.
C17_ErrorOnlyFromLoadingOrConnecting ==
  [][ (state'.status = "error" /\ state.status # "error")
        => state.status \in {"loading", "connecting"}
    ]_vars

\* the status becomes error only when a request fails
C17_OnlyByFailedRequests ==
  [][ (state'.status = "error" /\ state.status # "error")
        => lastOp'.op \in {"enginesFailed", "matchFailed"}
    ]_vars

\* the SANs of the first k script entries
ScriptSans(k) == [i \in 1..k |-> mockMoves[i].san]

\* C18: for the Move event with ply k, parsePgnMoves of its pgn gives (k + 1) \div 2
\* rows numbered 1, 2, ..., whose white and black entries are the first k script SANs
\* in order, the black entry of the last row being empty exactly when k is odd.
C18_MoveListRows ==
  emitted.lastMove # None =>
    LET k == Val(emitted.lastMove).ply
        rows == parsePgnMoves(Val(emitted.lastMove).pgn)
        n == (k + 1) \div 2
    IN /\ Len(rows) = n
       /\ \A i \in 1..n :
            /\ rows[i].moveNumber = i
            /\ rows[i].white = ScriptSans(k)[2 * i - 1]
            /\ rows[i].black = IF 2 * i <= k THEN ScriptSans(k)[2 * i] ELSE <<>>
       /\ (rows[n].black = <<>>) <=> (k % 2 = 1)

\* the third Move event: two rows, the second with White's move only
C18_Witness ==
  /\ emitted.lastMove # None
  /\ Val(emitted.lastMove).ply = 3
  /\ Len(parsePgnMoves(Val(emitted.lastMove).pgn)) = 2
  /\ parsePgnMoves(Val(emitted.lastMove).pgn)[2].black = <<>>

PieceLetters == {"p", "n", "b", "r", "q", "k", "P", "N", "B", "R", "Q", "K"}

\* the squares a rank text stands for: its digits added up, one per other character
RECURSIVE RankSquares(_)
RankSquares(rank) ==
  IF rank = <<>> THEN 0
  ELSE (IF IsDigit(Head(rank)) THEN DigitVal(Head(rank)) ELSE 1) + RankSquares(Tail(rank))

\* a rank that does not sum to 8 squares or holds a character that is neither a digit
\* 1..8 nor a piece letter
MalformedRank(rank) ==
  \/ RankSquares(rank) # 8
  \/ \E i \in 1..Len(rank) :
       rank[i] \notin PieceLetters \cup {"1", "2", "3", "4", "5", "6", "7", "8"}

\* C19: parseFen fails, returning no grid, whenever a rank of the placement is
\* malformed.
C19_MalformedPlacementFails ==
  (\E i \in 1..Len(Val(given).ranks) : MalformedRank(Val(given).ranks[i]))
    => /\ parseFenOutcome(GivenFen).threw
       /\ parseFenOutcome(GivenFen).grid = None

\* what parseFen does: it never fails; each row has the squares its rank text stands
\* for, a character that is no digit 1..8 being taken for a piece
C19_ParseFenNeverFails ==
  LET out == parseFenOutcome(GivenFen)
  IN /\ ~out.threw
     /\ Len(Val(out.grid)) = Len(Val(given).ranks)
     /\ \A i \in 1..Len(Val(given).ranks) :
          LET rank == Val(given).ranks[i]
          IN Len(Val(out.grid)[i])
               = RankSquares(SelectSeq(rank, LAMBDA c : c # "9" /\ c # "0"))
                   + Len(SelectSeq(rank, LAMBDA c : c = "9" \/ c = "0"))

\* C20: the placement of every Move event the Simulator emits parses to 8 rows of 8
\* squares, and the grid is the Simulator's board after that move.
C20_ParseInvertsPlacement ==
  emitted.lastMove # None =>
    LET grid == parseFen(Val(emitted.lastMove).fen)
    IN /\ Len(grid) = 8
       /\ \A r \in 1..8 : Len(grid[r]) = 8
       /\ grid = sim.board
       /\ parseFen(boardToPlacement(sim.board)) = sim.board

\* after White has castled (ply 15) the grid holds the king on g1 and the rook on f1
C20_Witness ==
  /\ emitted.lastMove # None
  /\ Val(emitted.lastMove).ply >= 15
  /\ parseFen(Val(emitted.lastMove).fen)[8][7] = "K"
  /\ parseFen(Val(emitted.lastMove).fen)[8][6] = "R"
  /\ parseFen(Val(emitted.lastMove).fen)[8][5] = Null

\* the four castling king moves: the king's letter, its squares, and the corner
\* rook's squares, as 0-based (row, column) pairs
Castlings ==
  { [king |-> "K", uci |-> <<"e", "1", "g", "1">>, kFrom |-> <<7, 4>>, kTo |-> <<7, 6>>,
     rFrom |-> <<7, 7>>, rTo |-> <<7, 5>>],
    [king |-> "K", uci |-> <<"e", "1", "c", "1">>, kFrom |-> <<7, 4>>, kTo |-> <<7, 2>>,
     rFrom |-> <<7, 0>>, rTo |-> <<7, 3>>],
    [king |-> "k", uci |-> <<"e", "8", "g", "8">>, kFrom |-> <<0, 4>>, kTo |-> <<0, 6>>,
     rFrom |-> <<0, 7>>, rTo |-> <<0, 5>>],
    [king |-> "k", uci |-> <<"e", "8", "c", "8">>, kFrom |-> <<0, 4>>, kTo |-> <<0, 2>>,
     rFrom |-> <<0, 0>>, rTo |-> <<0, 3>>] }

Squares == (0..7) \X (0..7)
Piece(board, sq) == board[sq[1] + 1][sq[2] + 1]

\* the castling the last move was, if it was one: the king stood on its square
CastlingPlayed ==
  { c \in Castlings : /\ Val(moved).uci = c.uci
                      /\ Piece(Val(moved).before, c.kFrom) = c.king }

\* C21: a castling king move (e1g1, e1c1, e8g8, e8c8 with the king on e1 / e8) with
\* a rook on the corner leaves the king on its target, that rook beside it, the
\* king's square and the corner empty and every other square as it was; any other
\* move empties the from square, puts the moved piece (in its promoted form when the
\* code has a fifth character) on the to square and leaves every other square as it
\* was, and a move from an empty square changes nothing.
C21_CastlingMovesRook ==
  Val(moved).applied > 0 =>
    LET m == Val(moved)
        fromSq == <<8 - DigitVal(m.uci[2]), IndexOf(files, m.uci[1])>>
        toSq == <<8 - DigitVal(m.uci[4]), IndexOf(files, m.uci[3])>>
        piece == Piece(m.before, fromSq)
        arrived == IF Len(m.uci) = 5
                   THEN (IF piece \in {"P", "R", "N", "B", "Q", "K"}
                         THEN ToUpperCase(m.uci[5]) ELSE ToLowerCase(m.uci[5]))
                   ELSE piece
    IN /\ \A c \in CastlingPlayed :
            Piece(m.before, c.rFrom) \in {"R", "r"} =>
              \A sq \in Squares :
                Piece(m.board, sq) =
                  IF sq = c.kTo THEN c.king
                  ELSE IF sq = c.rTo THEN Piece(m.before, c.rFrom)
                  ELSE IF sq \in {c.kFrom, c.rFrom} THEN Null
                  ELSE Piece(m.before, sq)
       /\ CastlingPlayed = {} =>
            \A sq \in Squares :
              Piece(m.board, sq) =
                IF piece = Null THEN Piece(m.before, sq)
                ELSE IF sq = toSq THEN arrived
                ELSE IF sq = fromSq THEN Null
                ELSE Piece(m.before, sq)

\* White has castled short with pieces elsewhere on the grid, and Black's rook
\* still stands on a8
C21_Witness ==
  /\ Val(moved).applied > 0
  /\ Val(moved).uci = <<"e", "1", "g", "1">>
  /\ Piece(Val(moved).before, <<7, 4>>) = "K"
  /\ Piece(Val(moved).before, <<7, 7>>) = "R"
  /\ Piece(Val(moved).board, <<7, 6>>) = "K"
  /\ Piece(Val(moved).board, <<7, 5>>) = "R"
  /\ Piece(Val(moved).board, <<0, 0>>) = "r"

\* C22: a start whose preconditions hold sets status to connecting, empties pgn and
\* nulls result, and leaves no EventSource, simulator or reconnect timeout of the
\* earlier session alive; fen, clocks and lastMoveUci keep their values. With mock
\* data the resolved createMockMatch promise continues in the same turn: the new
\* simulator is then the only live source and its Open and MatchStarted have set
\* running and the start position; clocks and lastMoveUci are still as before.
C22_StartConnects ==
  [][ lastOp'.op = "start" =>
        /\ refs'.timers = {}
        /\ refs'.reconnectTimerRef = 0
        /\ refs'.streams = {}
        /\ state'.clocks = state.clocks
        /\ state'.lastMoveUci = state.lastMoveUci
        /\ IF state.useMocks
           THEN /\ state' = [state EXCEPT !.error = None, !.status = "running",
                                          !.matchId = Some(MockMatchId),
                                          !.fen = startFen, !.pgn = <<>>,
                                          !.result = None]
                /\ \E m \in refs'.mocks :
                     /\ refs'.mocks = {m}
                     /\ refs'.mockStreamRef = m.h
                     /\ m.sim.moveIndex = 0
                     /\ ~m.sim.closed
                /\ requests' = requests
           ELSE /\ state' = [state EXCEPT !.error = None, !.status = "connecting",
                                          !.pgn = <<>>, !.result = None]
                /\ refs'.mocks = {}
                /\ requests' = requests + 1
    ]_vars

\* a start made while a retry was scheduled, after a move had been shown: the retry
\* is cancelled, the move code is still shown and the POST is in flight
C22_Witness ==
  /\ lastOp.op = "start"
  /\ lastOp.from = "reconnecting"
  /\ lastOp.retryPending
  /\ state.status = "connecting"
  /\ state.lastMoveUci # None
  /\ state.clocks # None
  /\ refs.timers = {}
  /\ requests > 0

\* C23: a MatchStarted delivered by the EventSource, whatever the status it finds,
\* sets status to running, fen to the start position received (the standard one
\* when the received one is empty), pgn to empty and result to null; matchId, clocks,
\* lastMoveUci and every other cell, and the refs, stay as they were. This holds as
\* well when the move list and position of before a reconnection are thereby lost.
C23_MatchStartedResets ==
  [][ lastOp'.op = "onMatchStarted" =>
        /\ \E start_fen \in StartFenChoices :
             state' = [state EXCEPT
                         !.status = "running",
                         !.fen = IF start_fen = <<>> THEN startFen ELSE start_fen,
                         !.pgn = <<>>,
                         !.result = None]
        /\ refs' = refs
        /\ requests' = requests
    ]_vars

\* a MatchStarted came after a move had been shown: the move list is empty and the
\* standard start position is shown again, the move code and the clocks remain
C23_Witness ==
  /\ lastOp.op = "onMatchStarted"
  /\ state.status = "running"
  /\ state.lastMoveUci # None
  /\ state.clocks # None
  /\ state.matchId # None
  /\ state.pgn = <<>>
  /\ state.fen = startFen

\* Clock and Move payloads to hand to the handlers: two different clocks, and the
\* script's first two moves (ply 1 and ply 2)
LatestClocks == ClockChoices \cup {EvClock(0, 1000)}
LatestMoves ==
  MoveChoices \cup {moveTimerFires(moveTimerFires(createMockStream(0).sim).sim).events[1]}

\* the replace-with-latest laws of one handler set, from the world w
ReplaceWithLatest(w, onClock(_, _), onMove(_, _)) ==
  /\ \A c \in LatestClocks :
       /\ onClock(w, c) = [w EXCEPT !.s.clocks = Some([white_ms |-> c.white_ms,
                                                       black_ms |-> c.black_ms])]
       /\ onClock(onClock(w, c), c) = onClock(w, c)
       /\ \A d \in LatestClocks : onClock(onClock(w, d), c) = onClock(w, c)
  /\ \A m \in LatestMoves :
       /\ onMove(w, m) = [w EXCEPT !.s.fen = m.fen, !.s.pgn = m.pgn,
                                   !.s.lastMoveUci = Some(m.uci)]
       /\ onMove(onMove(w, m), m) = onMove(w, m)
       /\ \A n \in LatestMoves : onMove(onMove(w, n), m) = onMove(w, m)
       /\ \A c \in LatestClocks :
            /\ onMove(onClock(w, c), m) = onClock(onMove(w, m), c)
            /\ SessionState(onMove(onClock(w, c), m).s)
                 = [SessionState(w.s) EXCEPT
                      !.clocks = Some([white_ms |-> c.white_ms, black_ms |-> c.black_ms]),
                      !.fen = m.fen, !.pgn = m.pgn, !.lastMoveUci = Some(m.uci)]

\* C24: from every state the folded events lead to, through the Stream Client's
\* handlers and through the Simulator's: onClock replaces clocks by the payload and
\* nothing else; onMove replaces fen, pgn and lastMoveUci by the payload's and nothing
\* else, whatever its ply and whatever move was handled before (a later, the same or
\* an earlier one); handling the same event twice equals handling it once; and a
\* Clock and a Move give the same state in either order, with status and result as
\* they were.
C24_ReplaceWithLatest ==
  fold # None =>
    /\ ReplaceWithLatest(Val(fold).viaStream, streamOnClock, streamOnMove)
    /\ ReplaceWithLatest(Val(fold).viaMock, mockOnClock, mockOnMove)

\* the first move was handled, then a Clock, then the first move again: the state
\* shows that move and that clock, with the status a MatchStarted would have set
\* left as it was
C24_Witness ==
  /\ fold # None
  /\ Len(Val(fold).events) = 3
  /\ Val(fold).events[1].kind = "move"
  /\ Val(fold).events[2].kind = "clock"
  /\ Val(fold).events[3] = Val(fold).events[1]
  /\ Val(fold).start = "reconnecting"
  /\ Val(fold).viaStream.s.status = "reconnecting"
  /\ Val(fold).viaStream.s.lastMoveUci = Some(Val(fold).events[1].uci)
  /\ Val(fold).viaStream.s.pgn = Val(fold).events[1].pgn
  /\ Val(fold).viaStream.s.clocks # None
  /\ \E m \in LatestMoves : m.ply > Val(fold).events[1].ply

\* the session has ended the way the script ends: finished with the result 1-0, the
\* script's last move shown last and a move list of 10 numbered rows (one per pair of
\* the 20 script moves), and no simulator, EventSource or timeout alive
ScriptPlayedOut ==
  /\ state.status = "finished"
  /\ state.result = Some([result |-> "1-0", reason |-> "checkmate"])
  /\ state.lastMoveUci = Some(mockMoves[Len(mockMoves)].uci)
  /\ Len(SelectSeq(state.pgn, LAMBDA c : c = ".")) * 2 = Len(mockMoves)
  /\ refs.mocks = {}
  /\ refs.streams = {}
  /\ refs.timers = {}

\* C25: with mock data, under weak fairness of the simulator's two intervals, a
\* session that is running and is not stopped is eventually finished with the result
\* 1-0, the 20 script moves shown and no event source alive, for every positive time
\* control (those whose clocks reach 0 before the script ends included); and the
\* Result is delivered by a simulator that has emitted every script move, not
\* earlier.
C25_MockSessionFinishes ==
  /\ (state.status = "running") ~> ScriptPlayedOut
  /\ [][ lastOp'.op = "mockResult" =>
           /\ \E m \in refs.mocks : /\ m.sim.moveIndex = Len(mockMoves)
                                    /\ state'.pgn = Join(m.sim.pgnMoves, <<" ">>)
           /\ ScriptPlayedOut'
       ]_vars

\* a session started with the smallest time control has finished: both clocks had
\* reached 0 long before the last move
C25_Witness ==
  /\ lastOp.op = "mockResult"
  /\ lastOp.from = "running"
  /\ ScriptPlayedOut
  /\ state.clocks = Some([white_ms |-> 0, black_ms |-> 0])

\* C26: whenever status is idle, no EventSource or simulator is live and no reconnect
\* timeout is pending.
C26_IdleIsQuiet ==
  state.status = "idle" => (LiveSources = 0 /\ refs.timers = {})

\* what does hold: an idle session comes to have a live source only by the answer of
\* a match-creation request that was in flight, or, a source being live, by the
\* engine list arriving and setting idle; and a stop itself leaves nothing alive
C26_QuietButForStaleAnswers ==
  [][ /\ (state'.status = "idle" /\ (LiveSources' # 0 \/ refs'.timers # {})
            /\ ~(state.status = "idle" /\ (LiveSources # 0 \/ refs.timers # {})))
           => lastOp'.op \in {"matchCreated", "enginesLoaded"}
      /\ lastOp'.op \in {"stop", "toggle"}
           => (state'.status = "idle" /\ LiveSources' = 0 /\ refs'.timers = {})
    ]_vars

\* C27: whenever status is running, exactly one source (EventSource or simulator) is
\* live and no reconnect timeout is pending; whenever status is reconnecting, either
\* a reconnect timeout is pending and no source is live, or none is pending and
\* exactly one EventSource is live, still connecting (awaiting its onOpen).
C27_SourcesByStatus ==
  /\ state.status = "running" => (LiveSources = 1 /\ refs.timers = {})
  /\ state.status = "reconnecting" =>
       \/ (refs.timers # {} /\ LiveSources = 0)
       \/ /\ refs.timers = {}
          /\ refs.mocks = {}
          /\ \E x \in refs.streams : refs.streams = {x} /\ x.readyState = "connecting"

\* the retry has fired: status is still reconnecting, no timeout is pending and the
\* one EventSource is connecting
C27_Witness ==
  /\ lastOp.op = "retry"
  /\ state.status = "reconnecting"
  /\ refs.timers = {}
  /\ \E x \in refs.streams : refs.streams = {x} /\ x.readyState = "connecting"

====
